---- MODULE Spec2Model ----
(***************************************************************************)
(* The Lib26 API test console (src/unnamed/part_001), its request          *)
(* dispatcher apiFetch, its shape guards isRecord / hasItems / isPaged,    *)
(* and the deployment smoke page (src/src/App.tsx).                        *)
(*                                                                         *)
(* Text is a sequence of chunks (strings); string concatenation is \o.    *)
(* A JavaScript value is a record [kind, props, text]: kind is the value's *)
(* runtime kind, props gives the four properties the guards read (a        *)
(* property that is missing reads as undefined), text is the content of a  *)
(* string value.                                                           *)
(***************************************************************************)
EXTENDS Integers, Sequences, FiniteSets, TLC

VARIABLES
    log,          \* useState<string>("")       the log text
    busy,         \* useState(false)
    books,        \* useState<unknown[]>([])
    searchItems,  \* useState<unknown[]>([])
    files,        \* useState<FileList | null>(null), as the number of files
    processId,    \* useState<number>(0)
    selectedIds,  \* useState<string>(""), as a sequence of characters
    searchQ,      \* useState(""), as a sequence of characters
    inflight,     \* the run() calls suspended at `await fn()`
    hist,         \* history: the run() calls settled since the log was last empty
    gx,           \* guard harness: the value handed to the guards
    gout,         \* guard harness: what the guards returned
    fresp,        \* dispatcher harness: the response fetch() resolved with
    fout,         \* dispatcher harness: what apiFetch returned or threw
    tPending,     \* smoke page: Test API handlers awaiting their request
    tAlerts,      \* smoke page: the alert() texts shown
    tUnhandled    \* smoke page: rejections of the onClick promise nobody handles

consoleVars == <<log, busy, books, searchItems, files, processId, selectedIds,
                 searchQ, inflight, hist>>
guardVars == <<gx, gout>>
fetchVars == <<fresp, fout>>
smokeVars == <<tPending, tAlerts, tUnhandled>>
vars == <<log, busy, books, searchItems, files, processId, selectedIds, searchQ,
          inflight, hist, gx, gout, fresp, fout, tPending, tAlerts, tUnhandled>>

----------------------------------------------------------------------------
(* JavaScript values *)

PropNames == {"total", "page", "pageSize", "items"}

\* A property's value: its kind, and its elements when it is an array.
PV(t, a) == [t |-> t, a |-> a]
Missing == PV("undefined", <<>>)
PropVals ==
    {PV(t, <<>>) : t \in {"undefined", "null", "number", "string", "object"}}
        \cup {PV("array", <<>>), PV("array", <<7, 8>>)}

NoProps == [p \in PropNames |-> Missing]

JS(k, ps, s) == [kind |-> k, props |-> ps, text |-> s]
JSNull == JS("null", NoProps, <<>>)
JSUndefined == JS("undefined", NoProps, <<>>)
JSString(s) == JS("string", NoProps, s)
JSObject(ps) == JS("object", ps, <<>>)

\* The values the guards are tried on: every primitive kind, an array (which has
\* none of the four properties), and every object over the four properties.
Primitives ==
    {JSNull, JSUndefined, JS("boolean", NoProps, <<>>), JS("number", NoProps, <<>>),
     JSString(<<"abc">>), JS("array", NoProps, <<>>)}
Objects == {JSObject(ps) : ps \in [PropNames -> PropVals]}
Values == Primitives \cup Objects

\* typeof x
TypeOf(x) == IF x.kind \in {"null", "array"} THEN "object" ELSE x.kind

\* What evaluating a guard gives: a boolean, or a TypeError when it reads a
\* property of null or undefined.
ReadThrows(x) == x.kind \in {"null", "undefined"}
Get(x, p) == x.props[p]
ArrayIsArray(v) == v.t = "array"

isRecord_NoNullTest(x) == TypeOf(x) = "object"

isRecord(x) == TypeOf(x) = "object" /\ x.kind # "null"

hasItems_AnyItems(x) ==
    IF ~isRecord(x) THEN "false"
    ELSE IF ReadThrows(x) THEN "TypeError"
    ELSE IF Get(x, "items").t # "undefined" THEN "true" ELSE "false"

hasItems(x) ==
    IF ~isRecord(x) THEN "false"
    ELSE IF ReadThrows(x) THEN "TypeError"
    ELSE IF ArrayIsArray(Get(x, "items")) THEN "true" ELSE "false"

isPaged(x) ==
    IF ~isRecord(x) THEN "false"
    ELSE IF ReadThrows(x) THEN "TypeError"
    ELSE IF /\ Get(x, "total").t = "number"
            /\ Get(x, "page").t = "number"
            /\ Get(x, "pageSize").t = "number"
            /\ ArrayIsArray(Get(x, "items"))
         THEN "true" ELSE "false"

----------------------------------------------------------------------------
(* Responses and their decoding *)

\* A content-type header value, character by character.
AppJson == <<"a", "p", "p", "l", "i", "c", "a", "t", "i", "o", "n", "/", "j", "s", "o", "n">>
Charset == <<";", " ", "c", "h", "a", "r", "s", "e", "t", "=", "u", "t", "f", "-", "8">>
TextPlain == <<"t", "e", "x", "t", "/", "p", "l", "a", "i", "n">>
ProblemJson == <<"a", "p", "p", "l", "i", "c", "a", "t", "i", "o", "n", "/", "p", "r", "o", "b", "l", "e", "m", "+", "j", "s", "o", "n">>
UpperJson == <<"A", "p", "p", "l", "i", "c", "a", "t", "i", "o", "n", "/", "J", "S", "O", "N">>

\* res.headers.get("content-type"): null when the response has no such header.
Header(p, v) == [present |-> p, value |-> v]
NoHeader == Header(FALSE, <<>>)
Headers ==
    {NoHeader} \cup
    {Header(TRUE, v) : v \in {AppJson, AppJson \o Charset, TextPlain \o Charset \o AppJson,
                              TextPlain, ProblemJson, UpperJson}}

\* Response bodies as sent on the wire.
TxtPaged == <<"{\"total\":1,\"page\":1,\"pageSize\":1,\"items\":[7,8]}">>
TxtItems == <<"{\"items\":[7,8]}">>
TxtTotal == <<"{\"total\":1}">>
TxtNull == <<"null">>
TxtHtml == <<"<html>Bad Gateway</html>">>
TxtEmpty == <<>>
Texts == {TxtPaged, TxtItems, TxtTotal, TxtNull, TxtHtml, TxtEmpty}

Num == PV("number", <<>>)
ValPaged ==
    JSObject([p \in PropNames |-> IF p = "items" THEN PV("array", <<7, 8>>) ELSE Num])
ValItems ==
    JSObject([p \in PropNames |-> IF p = "items" THEN PV("array", <<7, 8>>) ELSE Missing])
ValTotal == JSObject([p \in PropNames |-> IF p = "total" THEN Num ELSE Missing])

\* What an awaited call gives: a value, or a thrown Error with a message.
Returned(v) == [threw |-> FALSE, msg |-> <<>>, val |-> v]
Thrown(m) == [threw |-> TRUE, msg |-> m, val |-> JSUndefined]

MsgFetch == <<"Failed to fetch">>
MsgToken == <<"Unexpected token < in JSON at position 0">>
MsgEnd == <<"Unexpected end of JSON input">>

\* res.json(): JSON.parse of the body text.
JSONparse(t) ==
    CASE t = TxtPaged -> Returned(ValPaged)
      [] t = TxtItems -> Returned(ValItems)
      [] t = TxtTotal -> Returned(ValTotal)
      [] t = TxtNull -> Returned(JSNull)
      [] t = TxtEmpty -> Thrown(MsgEnd)
      [] OTHER -> Thrown(MsgToken)

\* What fetch() settles with: a rejection, or a response.
Response(st, h, t) == [fails |-> FALSE, status |-> st, ct |-> h, text |-> t]
NetworkFailure == [fails |-> TRUE, status |-> 0, ct |-> NoHeader, text |-> <<>>]
Statuses == {200, 204, 404, 500}
Responses == {Response(st, h, t) : st \in Statuses, h \in Headers, t \in Texts}

\* String.prototype.includes
Includes(hay, needle) ==
    \E i \in 0..(Len(hay) - Len(needle)) : SubSeq(hay, i + 1, i + Len(needle)) = needle

\* res.headers.get("content-type") || ""
ContentType(res) == IF res.ct.present THEN res.ct.value ELSE <<>>

IsJson_ExactMatch(res) == ContentType(res) = AppJson

IsJson(res) == Includes(ContentType(res), AppJson)

ResOk(res) == res.status \in 200..299

Envelope(o, st, b) == [ok |-> o, status |-> st, body |-> b]
NoEnvelope == Envelope(FALSE, 0, JSUndefined)
Result(e) == [threw |-> FALSE, msg |-> <<>>, r |-> e]
Failure(m) == [threw |-> TRUE, msg |-> m, r |-> NoEnvelope]

\* apiFetch, given what fetch() settles with.
apiFetch(net) ==
    IF net.fails THEN Failure(MsgFetch)
    ELSE IF IsJson(net)
         THEN LET parsed == JSONparse(net.text)
              IN  IF parsed.threw THEN Failure(parsed.msg)
                  ELSE Result(Envelope(ResOk(net), net.status, parsed.val))
         ELSE Result(Envelope(ResOk(net), net.status, JSString(net.text)))

----------------------------------------------------------------------------
(* The selected-ids text *)

Digits == {"0", "1", "2", "3", "4", "5", "6", "7", "8", "9"}
DigitVal(c) ==
    CASE c = "0" -> 0 [] c = "1" -> 1 [] c = "2" -> 2 [] c = "3" -> 3 [] c = "4" -> 4
      [] c = "5" -> 5 [] c = "6" -> 6 [] c = "7" -> 7 [] c = "8" -> 8 [] c = "9" -> 9

\* String.prototype.split(","): the pieces between the commas, empty ones included.
RECURSIVE Split(_)
Split(s) ==
    IF \A i \in 1..Len(s) : s[i] # "," THEN <<s>>
    ELSE LET k == CHOOSE i \in 1..Len(s) : s[i] = "," /\ \A j \in 1..(i - 1) : s[j] # ","
         IN  <<SubSeq(s, 1, k - 1)>> \o Split(SubSeq(s, k + 1, Len(s)))

\* String.prototype.trim
RECURSIVE Trim(_)
Trim(s) ==
    IF s = <<>> THEN s
    ELSE IF Head(s) = " " THEN Trim(Tail(s))
    ELSE IF s[Len(s)] = " " THEN Trim(SubSeq(s, 1, Len(s) - 1))
    ELSE s

\* The value of the longest prefix of digits, and how long that prefix is.
RECURSIVE DigitsPrefix(_, _, _)
DigitsPrefix(s, acc, n) ==
    IF s # <<>> /\ Head(s) \in Digits
    THEN DigitsPrefix(Tail(s), 10 * acc + DigitVal(Head(s)), n + 1)
    ELSE [val |-> acc, len |-> n]

\* A JavaScript number: NaN, or an integer.
NaN == [nan |-> TRUE, n |-> 0]
Number(n) == [nan |-> FALSE, n |-> n]

\* parseInt(s, 10): optional white space, an optional sign, then the digits up to
\* the first character that is not one; NaN when there is no digit.
parseInt(s) ==
    LET t == Trim(s)
        signed == t # <<>> /\ Head(t) \in {"+", "-"}
        d == DigitsPrefix(IF signed THEN Tail(t) ELSE t, 0, 0)
    IN  IF d.len = 0 THEN NaN
        ELSE Number(IF signed /\ Head(t) = "-" THEN 0 - d.val ELSE d.val)

\* (n) => Number.isFinite(n) && n > 0
KeepId(x) == ~x.nan /\ x.n > 0

\* selectedIds.split(",").map((s) => parseInt(s.trim(), 10)).filter(...)
ParseIds(text) ==
    LET pieces == Split(text)
        parsed == [i \in 1..Len(pieces) |-> parseInt(Trim(pieces[i]))]
        kept == SelectSeq(parsed, KeepId)
    IN  [i \in 1..Len(kept) |-> kept[i].n]

selectedIdList == ParseIds(selectedIds)

----------------------------------------------------------------------------
(* The log *)

PropOrder == <<"total", "page", "pageSize", "items">>

\* JSON.stringify(v, null, 2) of a property's value, inside an object.
PropText(v) ==
    CASE v.t = "number" -> <<"1">>
      [] v.t = "string" -> <<"\"abc\"">>
      [] v.t = "null" -> <<"null">>
      [] v.t = "object" -> <<"{}">>
      [] v.t = "array" /\ v.a = <<>> -> <<"[]">>
      [] OTHER -> <<"[\n    7,\n    8\n  ]">>

RECURSIVE Members(_, _)
Members(x, ps) ==
    IF ps = <<>> THEN <<>>
    ELSE <<"\n  \"", Head(ps), "\": ">> \o PropText(Get(x, Head(ps)))
             \o (IF Len(ps) > 1 THEN <<",">> ELSE <<>>) \o Members(x, Tail(ps))

\* JSON.stringify(body, null, 2)
JSONstringify(x) ==
    CASE x.kind = "null" -> <<"null">>
      [] x.kind = "undefined" -> <<"undefined">>
      [] x.kind = "boolean" -> <<"true">>
      [] x.kind = "number" -> <<"1">>
      [] x.kind = "string" -> <<"\"">> \o x.text \o <<"\"">>
      [] x.kind = "array" -> <<"[]">>
      [] OTHER ->
          LET ps == SelectSeq(PropOrder, LAMBDA p : Get(x, p).t # "undefined")
          IN  IF ps = <<>> THEN <<"{}">> ELSE <<"{">> \o Members(x, ps) \o <<"\n}">>

formatBody(body) == IF TypeOf(body) = "string" THEN body.text ELSE JSONstringify(body)

StatusText(st) ==
    CASE st = 200 -> <<"200">> [] st = 204 -> <<"204">> [] st = 404 -> <<"404">>
      [] st = 500 -> <<"500">> [] OTHER -> <<"0">>

\* The block appendLog builds for a result.
ResultBlock(title, r) ==
    <<"\n=== ">> \o title \o <<" ===\nStatus: ">> \o StatusText(r.status)
        \o <<"\nBody:\n">> \o formatBody(r.body) \o <<"\n">>

\* The block run's catch builds for an error message.
ErrorBlock(title, msg) == <<"\n=== ">> \o title \o <<" ERROR ===\n">> \o msg \o <<"\n">>

appendLog_AtEnd(title, r, prev) == prev \o ResultBlock(title, r)

\* appendLog: setLog((prev) => text + prev)
appendLog(title, r, prev) == ResultBlock(title, r) \o prev

catchLog_DropsPrev(title, msg, prev) == ErrorBlock(title, msg)

\* run's catch: setLog((prev) => `\n=== ${title} ERROR ===\n${msg}\n` + prev)
catchLog(title, msg, prev) == ErrorBlock(title, msg) \o prev

----------------------------------------------------------------------------
(* The console *)

\* The log holds at most MaxBlocks blocks, those of the calls in flight included:
\* at the bound no further action is started until Clear Log.
MaxBlocks == 2

\* The controls whose onClick calls run(). (Open Swagger and the inputs whose
\* state no control reads before a click change nothing that is modelled.)
Buttons ==
    {"Health", "Login", "Me", "Logout", "LoadBooks", "Upload", "ProcessOne",
     "ProcessSelected", "SearchGet", "SearchPost", "Stats"}

IdText(n) == IF n = 1 THEN "1" ELSE "0"

\* The title the control passes to run().
Title(b) ==
    CASE b = "Health" -> <<"Health">>
      [] b = "Login" -> <<"POST /api/auth/login">>
      [] b = "Me" -> <<"GET /api/auth/me">>
      [] b = "Logout" -> <<"POST /api/auth/logout">>
      [] b = "LoadBooks" -> <<"GET /api/books">>
      [] b = "Upload" -> <<"POST /api/books/upload">>
      [] b = "ProcessOne" -> <<"POST /api/books/", IdText(processId), "/process">>
      [] b = "ProcessSelected" -> <<"POST /api/books/process-selected">>
      [] b = "SearchGet" -> <<"GET /api/search?q=...">>
      [] b = "SearchPost" -> <<"POST /api/search">>
      [] b = "Stats" -> <<"GET /api/stats/summary">>

\* The part of a control's `disabled` that reads the form.
FormDisabled(b) ==
    CASE b = "Upload" -> files = 0
      [] b = "ProcessOne" -> processId <= 0
      [] b = "ProcessSelected" -> Len(selectedIdList) = 0
      [] b \in {"SearchGet", "SearchPost"} -> Len(Trim(searchQ)) = 0
      [] OTHER -> FALSE

Disabled_IgnoresBusy(b) == FormDisabled(b)

\* disabled={busy || ...}
Disabled(b) == busy \/ FormDisabled(b)

Blocks == Len(hist) + Len(inflight)

\* onChange of Selected IDs: setSelectedIds(e.target.value)
ChangeSelectedIds(v) ==
    /\ selectedIds' = v
    /\ UNCHANGED <<log, busy, books, searchItems, files, processId, searchQ,
                   inflight, hist, guardVars, fetchVars, smokeVars>>

\* A click on an enabled control: run() up to its `await fn()`. React commits
\* setBusy(true) before it dispatches the next event, so the next click sees it.
Click(b) ==
    /\ ~Disabled(b)
    /\ Blocks < MaxBlocks
    /\ busy' = TRUE
    /\ inflight' = Append(inflight, [button |-> b, title |-> Title(b),
                                     ids |-> IF b = "ProcessSelected" THEN selectedIdList
                                             ELSE <<>>])
    /\ UNCHANGED <<log, books, searchItems, files, processId, selectedIds, searchQ,
                   hist, guardVars, fetchVars, smokeVars>>

\* What the fn handed to run() settles with, given what apiFetch settles with.
FnResult(b, res) ==
    IF res.threw \/ ~res.r.ok THEN res
    ELSE IF b = "LoadBooks" /\ isPaged(res.r.body) = "TypeError" THEN Failure(<<"TypeError">>)
    ELSE IF b \in {"SearchGet", "SearchPost"} /\ hasItems(res.r.body) = "TypeError"
         THEN Failure(<<"TypeError">>)
    ELSE res

\* if (r.ok && isPaged(r.body)) setBooks(r.body.items)
BooksAfter(b, res) ==
    IF b = "LoadBooks" /\ ~res.threw /\ res.r.ok /\ isPaged(res.r.body) = "true"
    THEN Get(res.r.body, "items").a ELSE books

\* if (r.ok && hasItems(r.body)) setSearchItems(r.body.items)
SearchItemsAfter(b, res) ==
    IF b \in {"SearchGet", "SearchPost"} /\ ~res.threw /\ res.r.ok
          /\ hasItems(res.r.body) = "true"
    THEN Get(res.r.body, "items").a ELSE searchItems

Remove(s, i) == SubSeq(s, 1, i - 1) \o SubSeq(s, i + 1, Len(s))

busyAfter_StuckOnThrow(threw) == threw

\* run's finally: setBusy(false)
busyAfter(threw) == FALSE

\* The request of the i-th call in flight settles with net: the rest of fn, then
\* the rest of run().
Settle(i, net) ==
    /\ i \in 1..Len(inflight)
    /\ LET rq == inflight[i]
           res == apiFetch(net)
           out == FnResult(rq.button, res)
       IN  /\ books' = BooksAfter(rq.button, res)
           /\ searchItems' = SearchItemsAfter(rq.button, res)
           /\ log' = IF out.threw THEN catchLog(rq.title, out.msg, log)
                     ELSE appendLog(rq.title, out.r, log)
           /\ busy' = busyAfter(out.threw)
           /\ hist' = Append(hist, [button |-> rq.button, title |-> rq.title,
                                    fails |-> net.fails, out |-> out])
    /\ inflight' = Remove(inflight, i)
    /\ UNCHANGED <<files, processId, selectedIds, searchQ, guardVars, fetchVars, smokeVars>>

\* Clear Log: setLog("")
ClearLog ==
    /\ ~busy
    /\ log' = <<>>
    /\ hist' = <<>>
    /\ UNCHANGED <<busy, books, searchItems, files, processId, selectedIds, searchQ,
                   inflight, guardVars, fetchVars, smokeVars>>

\* What the requests of the console settle with.
Outcomes ==
    {NetworkFailure,
     Response(200, Header(TRUE, AppJson), TxtPaged),
     Response(200, Header(TRUE, AppJson), TxtTotal),
     Response(200, Header(TRUE, AppJson), TxtHtml)}

\* The form as the page loads it, and a form filled in by the user.
EmptyForm == files = 0 /\ processId = 0 /\ selectedIds = <<>> /\ searchQ = <<>>
FilledForm == files = 1 /\ processId = 1 /\ selectedIds = <<"1">> /\ searchQ = <<"a">>

IdleHarness ==
    /\ gx = JSUndefined /\ gout = <<>>
    /\ fresp = NetworkFailure /\ fout = <<>>
    /\ tPending = 0 /\ tAlerts = <<>> /\ tUnhandled = <<>>

\* The console as useState leaves it.
Loaded ==
    /\ log = <<>>
    /\ busy = FALSE
    /\ books = <<>>
    /\ searchItems = <<>>
    /\ inflight = <<>>
    /\ hist = <<>>

\* The page as it loads.
PageLoad == Loaded /\ EmptyForm /\ IdleHarness

\* The page as it loads, or once the user has filled in the form.
Init == Loaded /\ (EmptyForm \/ FilledForm) /\ IdleHarness

Next ==
    \/ \E b \in Buttons : Click(b)
    \/ \E i \in 1..Len(inflight), net \in Outcomes : Settle(i, net)
    \/ ClearLog

Spec == Init /\ [][Next]_vars

\* The page as it loads, with every request answered or failing in the end.
FairSpec ==
    /\ PageLoad
    /\ [][Next]_vars
    /\ WF_vars(\E i \in 1..Len(inflight), net \in Outcomes : Settle(i, net))

----------------------------------------------------------------------------
(* The selected-ids field, typed a character at a time *)

MaxText == 4
Alphabet == {"0", "1", "2", "x", "-", ",", " "}

\* A key press in Selected IDs, by a user who types before clicking.
TypeSelectedIds(c) ==
    /\ ~busy
    /\ Len(selectedIds) < MaxText
    /\ ChangeSelectedIds(Append(selectedIds, c))

NextParse ==
    \/ \E c \in Alphabet : TypeSelectedIds(c)
    \/ \E b \in Buttons : Click(b)

ParseSpec == PageLoad /\ [][NextParse]_vars

----------------------------------------------------------------------------
(* The guards, on every value *)

ApplyGuards ==
    /\ gout = <<>>
    /\ gout' = <<[paged |-> isPaged(gx), items |-> hasItems(gx)]>>
    /\ UNCHANGED <<gx, consoleVars, fetchVars, smokeVars>>

InitGuard ==
    /\ Loaded /\ EmptyForm
    /\ gx \in Values /\ gout = <<>>
    /\ fresp = NetworkFailure /\ fout = <<>>
    /\ tPending = 0 /\ tAlerts = <<>> /\ tUnhandled = <<>>

GuardSpec == InitGuard /\ [][ApplyGuards]_vars

----------------------------------------------------------------------------
(* The dispatcher, on every response *)

Dispatch ==
    /\ fout = <<>>
    /\ fout' = <<apiFetch(fresp)>>
    /\ UNCHANGED <<fresp, consoleVars, guardVars, smokeVars>>

InitFetch ==
    /\ Loaded /\ EmptyForm
    /\ gx = JSUndefined /\ gout = <<>>
    /\ fresp \in Responses \cup {NetworkFailure} /\ fout = <<>>
    /\ tPending = 0 /\ tAlerts = <<>> /\ tUnhandled = <<>>

FetchSpec == InitFetch /\ [][Dispatch]_vars

----------------------------------------------------------------------------
(* The smoke page, src/src/App.tsx *)

MaxTests == 3

\* JSON.stringify(data), without indentation.
JSONcompact(x) ==
    CASE x = ValPaged -> TxtPaged
      [] x = ValItems -> TxtItems
      [] x = ValTotal -> TxtTotal
      [] OTHER -> TxtNull

\* A click on Test API: the handler up to `await fetch("/api/health")`. The button
\* is never disabled.
TestClick ==
    /\ tPending + Len(tAlerts) + Len(tUnhandled) < MaxTests
    /\ tPending' = tPending + 1
    /\ UNCHANGED <<tAlerts, tUnhandled, consoleVars, guardVars, fetchVars>>

\* The request of a pending handler settles with net: r.json(), then alert(). The
\* handler has no try/catch: what it throws rejects the promise onClick returns.
TestSettle(net) ==
    /\ tPending > 0
    /\ tPending' = tPending - 1
    /\ LET data == IF net.fails THEN Thrown(MsgFetch) ELSE JSONparse(net.text)
       IN  IF data.threw
           THEN tUnhandled' = Append(tUnhandled, data.msg) /\ tAlerts' = tAlerts
           ELSE tAlerts' = Append(tAlerts, JSONcompact(data.val)) /\ tUnhandled' = tUnhandled
    /\ UNCHANGED <<consoleVars, guardVars, fetchVars>>

SmokeOutcomes == {NetworkFailure} \cup {Response(200, Header(TRUE, AppJson), t) : t \in Texts}

NextSmoke ==
    \/ TestClick
    \/ \E net \in SmokeOutcomes : TestSettle(net)

SmokeSpec == PageLoad /\ [][NextSmoke]_vars

----------------------------------------------------------------------------
(* Claims *)

Last == hist[Len(hist)]

StartsWith(s, t) == Len(s) >= Len(t) /\ SubSeq(s, 1, Len(t)) = t

\* The block of a settled call, written out from the templates of appendLog
\* and of run's catch.
BlockOf(e) ==
    IF e.out.threw
    THEN <<"\n=== ">> \o e.title \o <<" ERROR ===\n">> \o e.out.msg \o <<"\n">>
    ELSE <<"\n=== ">> \o e.title \o <<" ===\nStatus: ">> \o StatusText(e.out.r.status)
             \o <<"\nBody:\n">> \o formatBody(e.out.r.body) \o <<"\n">>

RECURSIVE NewestFirst(_)
NewestFirst(h) ==
    IF h = <<>> THEN <<>> ELSE BlockOf(h[Len(h)]) \o NewestFirst(SubSeq(h, 1, Len(h) - 1))

\* C1: at most one request started through run() is in flight at a time, and
\* while one is in flight every control that calls run() is disabled.
C1_AtMostOneInFlight ==
    /\ Len(inflight) <= 1
    /\ Len(inflight) = 1 => busy /\ \A b \in Buttons : Disabled(b)

\* A second action is in flight after an earlier one has settled, with a form
\* that disables nothing.
C1_Witness == Len(inflight) = 1 /\ Len(hist) >= 1 /\ FilledForm

\* A step in which a call settles with a network error.
NetworkErrorStep == Len(hist') = Len(hist) + 1 /\ hist'[Len(hist')].fails

\* C2: in a step where the request of an action fails with a network error, the
\* log becomes exactly one new block (the title, the ERROR marker, the error's
\* message) followed by the log as it was.
C2_NetworkErrorOneBlock ==
    [][NetworkErrorStep =>
           log' = <<"\n=== ">> \o hist'[Len(hist')].title \o <<" ERROR ===\n">> \o MsgFetch
                      \o <<"\n">> \o log]_vars

\* A network error has settled an action run over a log that held a block.
C2_Witness == Len(hist) = 2 /\ Last.fails /\ Len(log) > Len(ErrorBlock(Last.title, MsgFetch))

\* C3: every error thrown during a user action that issues a request is caught
\* at the action boundary and rendered as a log error block; none escapes to the
\* page as an unhandled fault.
C3_ErrorsCaughtAtBoundary ==
    /\ tUnhandled = <<>>
    /\ (hist # <<>> /\ Last.out.threw) => StartsWith(log, ErrorBlock(Last.title, Last.out.msg))

\* C4: after a Load Books or Search response that does not pass its shape guard,
\* the body is logged in full and the structured view is empty.
C4_MismatchLeavesViewEmpty ==
    (hist # <<>> /\ ~Last.out.threw) =>
        /\ (Last.button = "LoadBooks" /\ isPaged(Last.out.r.body) # "true") =>
               StartsWith(log, ResultBlock(Last.title, Last.out.r)) /\ books = <<>>
        /\ (Last.button \in {"SearchGet", "SearchPost"} /\ hasItems(Last.out.r.body) # "true") =>
               StartsWith(log, ResultBlock(Last.title, Last.out.r)) /\ searchItems = <<>>

\* A step of the log: unchanged, emptied by Clear Log, or one block prepended by
\* a call that settles.
LogStep ==
    \/ log' = log
    \/ log' = <<>> /\ ~busy /\ hist' = <<>> /\ inflight' = inflight
    \/ \E e \in {hist'[Len(hist')]} :
           /\ hist' = Append(hist, e)
           /\ Len(inflight') = Len(inflight) - 1
           /\ log' = BlockOf(e) \o log

\* C5: the log is the blocks of the settled actions, newest first; every settled
\* action prepends exactly one block and leaves the rest unchanged; only Clear
\* Log removes anything, and it empties the log.
C5_LogNewestFirst == [](log = NewestFirst(hist)) /\ [][LogStep]_vars

\* Two actions have settled, one with an error and one with a result.
C5_Witness == Len(hist) = 2 /\ hist[1].out.threw /\ ~hist[2].out.threw /\ log # <<>>

\* The responses whose content type contains application/json.
DeclaresJson(res) ==
    res.ct.present /\ res.ct.value \in {AppJson, AppJson \o Charset, TextPlain \o Charset \o AppJson}

\* C6: for a response whose content type contains application/json the
\* envelope's body is the parsed value, and a parse failure is thrown; for any
\* other response, a missing header included, the body is the raw text.
C6_DecodesByContentType ==
    (fout # <<>> /\ ~fresp.fails) =>
        LET o == fout[1]
            parsed == JSONparse(fresp.text)
        IN  IF DeclaresJson(fresp)
            THEN IF parsed.threw THEN o.threw /\ o.msg = parsed.msg
                 ELSE ~o.threw /\ o.r.body = parsed.val /\ o.r.body.kind # "string"
            ELSE ~o.threw /\ o.r.body = JSString(fresp.text)

\* A JSON response with a charset parameter has been decoded to an object.
C6_Witness ==
    /\ fout # <<>> /\ ~fresp.fails
    /\ fresp.ct.value = AppJson \o Charset
    /\ ~fout[1].threw /\ fout[1].r.body.kind = "object"

\* An entry that is a number: an optional sign, then digits only.
IsNumeric(e) ==
    LET t == Trim(e)
        u == IF t # <<>> /\ Head(t) \in {"+", "-"} THEN Tail(t) ELSE t
    IN  u # <<>> /\ \A i \in 1..Len(u) : u[i] \in Digits

\* The entries that are numeric and positive, in input order.
NumericPositive(text) ==
    LET good == SelectSeq(Split(text), LAMBDA e : IsNumeric(e) /\ parseInt(e).n > 0)
    IN  [i \in 1..Len(good) |-> parseInt(good[i]).n]

Example == <<"1", ",", " ", "2", ",", " ", "x", ",", " ", "-", "3", ",", " ", "4">>

\* C7: the selected-ids text yields, in input order, exactly its entries that are
\* numeric and positive; what Process Selected sends is a non-empty list of
\* integers greater than 0.
C7_KeepsNumericPositiveEntries ==
    /\ ParseIds(Example) = <<1, 2, 4>>
    /\ selectedIdList = NumericPositive(selectedIds)
    /\ \A i \in 1..Len(inflight) :
           inflight[i].button = "ProcessSelected" =>
               /\ inflight[i].ids # <<>>
               /\ \A k \in 1..Len(inflight[i].ids) : inflight[i].ids[k] > 0

ObjectLike(x) == x.kind \in {"object", "array"}

\* C8: isPaged is true exactly for a non-null object whose total, page and
\* pageSize are numbers and whose items is an array; it is false, and does not
\* throw, for everything else.
C8_IsPagedIff ==
    /\ isPaged(ValPaged) = "true" /\ isPaged(ValItems) = "false"
    /\ gout # <<>> =>
           gout[1].paged =
               IF /\ ObjectLike(gx)
                  /\ \A p \in {"total", "page", "pageSize"} : gx.props[p].t = "number"
                  /\ gx.props["items"].t = "array"
               THEN "true" ELSE "false"

\* isPaged has accepted a value.
C8_Witness == gout # <<>> /\ gout[1].paged = "true"

\* C9: hasItems is true exactly for an object-like value whose items is an
\* array, whatever its other fields; it never throws; and it accepts every value
\* isPaged accepts.
C9_HasItemsIff ==
    /\ hasItems(ValItems) = "true" /\ hasItems(ValTotal) = "false"
    /\ gout # <<>> =>
           /\ gout[1].items =
                  IF ObjectLike(gx) /\ gx.props["items"].t = "array" THEN "true" ELSE "false"
           /\ gout[1].paged = "true" => gout[1].items = "true"

\* hasItems has accepted a value isPaged rejects.
C9_Witness == gout # <<>> /\ gout[1].items = "true" /\ gout[1].paged = "false"

\* C10: busy is true exactly while a call is in flight; it turns false only in
\* a step that settles the call, so a request that never settles leaves it true;
\* and once the request settles, with a result or an error, busy turns false.
C10_BusyUntilSettled ==
    /\ [](busy <=> Len(inflight) > 0)
    /\ [][(busy /\ ~busy') => Len(inflight') < Len(inflight)]_vars
    /\ (busy ~> ~busy)

\* A call has settled with a decoding fault and busy is false again.
C10_Witness == hist # <<>> /\ Last.out.threw /\ ~Last.fails /\ ~busy

====
